---- MODULE Spec2Model ----
(***************************************************************************)
(* A model of vector_memory.py: the two tools save_to_memory and           *)
(* recall_from_memory over a Redis vector index, the file system they      *)
(* read, and the failures of the services they call.                       *)
(***************************************************************************)
EXTENDS Integers, Sequences, FiniteSets, TLC

VARIABLES
    index,   \* the entries stored under the "doc_chunks:" prefix in Redis
    fs,      \* the file system: canonical path -> body of the file
    last,    \* the tool call that has just returned (arguments and return value), until its caller takes the result
    saved,   \* history: per file, the last save_to_memory of that file alone that succeeded in every phase
    proc     \* server processes running save_to_memory step by step (Redis command granularity)

vars == <<index, fs, last, saved, proc>>

----------------------------------------------------------------------------
(* Bounds of the model *)

\* longest file_paths list a call is given
MaxPaths == 2
\* most entries the index holds (a call that would exceed it is not taken)
MaxEntries == 3
\* largest k a recall asks for
MaxK == 2

----------------------------------------------------------------------------
(* Paths: os.path.abspath, os.path.splitext, str.lower *)

\* a path: absolute or relative, its directory components, the file's stem and extension
MkPath(a, d, s, e) == [abs |-> a, dirs |-> d, stem |-> s, ext |-> e]

NoPath == MkPath(FALSE, <<>>, "", "")

\* the working directory of the server process
Cwd == <<"w">>

RECURSIVE normpath(_, _)
\* os.path.normpath on directory components: "." is dropped, ".." removes the
\* component before it (and is dropped at the root)
normpath(done, rest) ==
    IF rest = <<>> THEN done
    ELSE IF Head(rest) = "." THEN normpath(done, Tail(rest))
    ELSE IF Head(rest) = ".."
         THEN normpath(IF done = <<>> THEN done ELSE SubSeq(done, 1, Len(done) - 1), Tail(rest))
    ELSE normpath(Append(done, Head(rest)), Tail(rest))

\* os.path.abspath: join a relative path onto the working directory, then normalise
abspath(p) ==
    MkPath(TRUE, normpath(<<>>, IF p.abs THEN p.dirs ELSE Cwd \o p.dirs), p.stem, p.ext)

\* str.lower on the extensions that occur
lower(e) ==
    CASE e = ".PDF" -> ".pdf"
      [] e = ".TXT" -> ".txt"
      [] OTHER -> e

\* os.path.splitext(abs_path)[1].lower()
ExtOf(p) == lower(p.ext)

\* the spellings a caller passes in file_paths
InputPaths ==
    { MkPath(FALSE, <<>>, "a", ".txt"),
      MkPath(TRUE, <<"w", ".", "x", "..">>, "a", ".txt"),
      MkPath(FALSE, <<>>, "b", ".PDF"),
      MkPath(FALSE, <<>>, "img", ".png") }

FileA == MkPath(TRUE, <<"w">>, "a", ".txt")
FileB == MkPath(TRUE, <<"w">>, "b", ".PDF")
FileImg == MkPath(TRUE, <<"w">>, "img", ".png")

Files == { abspath(p) : p \in InputPaths }

----------------------------------------------------------------------------
(* File bodies and loaders *)

\* the body of a file: absent, UTF-8 text, a PDF with pages, or other binary data
Body(k, pg) == [kind |-> k, pages |-> pg]

Absent == Body("absent", <<>>)
Binary == Body("binary", <<>>)
TextV1 == Body("text", << <<1, 2>> >>)
TextV2 == Body("text", << <<3, 4, 5>> >>)
PdfV1 == Body("pdf", << <<1, 2>>, <<3>> >>)

\* the bodies each file takes in the model
Bodies(f) ==
    CASE f = FileA -> {Absent, TextV1, TextV2}
      [] f = FileB -> {PdfV1}
      [] OTHER -> {TextV1, Binary}

\* os.path.exists
exists(f) == fs[f].kind # "absent"

\* a loaded langchain Document: its text and the page it came from (-1: no page)
Doc(t, pg) == [page_content |-> t, page |-> pg]

\* the loader the extension selects: PyPDFLoader for ".pdf", TextLoader otherwise
LoaderFor(f) == IF ExtOf(f) = ".pdf" THEN "PyPDFLoader" ELSE "TextLoader"

\* the file types the tool documents: text files (.txt, .md) and PDF documents
SupportedExts == {".txt", ".md", ".pdf"}

\* a loader lookup that rejects the extensions the tool does not document
LoadRaises_Typed(f, body) ==
    \/ ExtOf(f) \notin SupportedExts
    \/ IF ExtOf(f) = ".pdf" THEN body.kind # "pdf" ELSE body.kind # "text"

\* whether loader.load() raises on the body
LoadRaises(f, body) ==
    IF LoaderFor(f) = "PyPDFLoader" THEN body.kind # "pdf" ELSE body.kind # "text"

\* loader.load(): one Document per page for a PDF, one for a whole text file
Load(f, body) ==
    IF LoaderFor(f) = "PyPDFLoader"
    THEN [i \in 1..Len(body.pages) |-> Doc(body.pages[i], i - 1)]
    ELSE << Doc(body.pages[1], -1) >>

----------------------------------------------------------------------------
(* The splitter *)

\* the (chunk_size, chunk_overlap) pairs a caller passes
Params == { <<4, 1>>, <<2, 1>>, <<2, 3>> }

\* RecursiveCharacterTextSplitter(chunk_size, chunk_overlap) raises ValueError
SplitterRaises(size, overlap) == overlap > size

RECURSIVE Windows(_, _, _, _)
\* the windows of `size` characters from position s on, stepping by `step`
Windows(text, s, size, step) ==
    IF s + size - 1 >= Len(text)
    THEN << SubSeq(text, s, Len(text)) >>
    ELSE << SubSeq(text, s, s + size - 1) >> \o Windows(text, s + step, size, step)

\* splitter.split_text on text without separators
split_text(text, size, overlap) ==
    IF text = <<>> THEN <<>>
    ELSE Windows(text, 1, size, IF size - overlap >= 1 THEN size - overlap ELSE 1)

RECURSIVE split_documents(_, _, _)
\* splitter.split_documents: the chunks of every document, in order, each
\* keeping the metadata of its document
split_documents(docs, size, overlap) ==
    IF docs = <<>> THEN <<>>
    ELSE LET d == Head(docs)
             cs == split_text(d.page_content, size, overlap)
         IN [i \in 1..Len(cs) |-> Doc(cs[i], d.page)]
            \o split_documents(Tail(docs), size, overlap)

----------------------------------------------------------------------------
(* The index *)

\* an entry of the index: its Redis key, the chunk's text and metadata
Entry(k, c) ==
    [key |-> k, source_file |-> c.source_file, page_content |-> c.page_content,
     page |-> c.page]

\* a chunk ready for insertion: a split document tagged with its file
Chunk(d, f) == [page_content |-> d.page_content, page |-> d.page, source_file |-> f]

EntriesOf(idx, f) == { e \in idx : e.source_file = f }

\* a scan that does not compare the stored path
KeysToDelete_All(idx, abs_path) == idx

\* the keys the dedup scan collects for abs_path
KeysToDelete(idx, abs_path) == { e \in idx : e.source_file = abs_path }

\* a round that collects the keys and never deletes them
DedupOne_Skip(idx, abs_path, raises) == idx

\* one round of the dedup loop; when a Redis command of the round raises
\* nothing has been deleted and the exception is swallowed
DedupOne(idx, abs_path, raises) ==
    IF raises THEN idx ELSE idx \ KeysToDelete(idx, abs_path)

RECURSIVE DedupFrom(_, _, _, _)

\* a dedup loop that a raising round ends
DedupFrom_Abort(idx, file_paths, i, failed) ==
    IF i > Len(file_paths) \/ i \in failed THEN idx
    ELSE DedupFrom(DedupOne(idx, abspath(file_paths[i]), FALSE), file_paths, i + 1, failed)

\* the dedup loop from position i on
DedupFrom(idx, file_paths, i, failed) ==
    IF i > Len(file_paths) THEN idx
    ELSE DedupFrom(DedupOne(idx, abspath(file_paths[i]), i \in failed),
                   file_paths, i + 1, failed)

\* the dedup pass over file_paths; `failed` are the positions whose round raises
DedupPass(idx, file_paths, failed) == DedupFrom(idx, file_paths, 1, failed)

\* what a tool call returns: the kind of message, the path it names, the
\* number of files it reports, the results it lists
Ret(kind, path, n, results) == [kind |-> kind, path |-> path, n |-> n, results |-> results]

RECURSIVE LoadFrom(_, _, _, _, _)
\* the load and chunk loop from position i on, docs being the chunks so far
LoadFrom(file_paths, i, size, overlap, docs) ==
    IF i > Len(file_paths) THEN [ok |-> TRUE, docs |-> docs, ret |-> Ret("None", NoPath, 0, <<>>)]
    ELSE LET abs_path == abspath(file_paths[i]) IN
         IF ~exists(abs_path)
         THEN [ok |-> FALSE, docs |-> <<>>, ret |-> Ret("NotFound", abs_path, 0, <<>>)]
         ELSE IF LoadRaises(abs_path, fs[abs_path])
         THEN [ok |-> FALSE, docs |-> <<>>, ret |-> Ret("Processing", abs_path, 0, <<>>)]
         ELSE LET chunks == split_documents(Load(abs_path, fs[abs_path]), size, overlap)
                  tagged == [j \in 1..Len(chunks) |-> Chunk(chunks[j], abs_path)]
              IN LoadFrom(file_paths, i + 1, size, overlap, docs \o tagged)

\* the load and chunk loop: the chunks of every file, or the error of the first
\* file that is missing or whose loader raises
LoadPass(file_paths, size, overlap) == LoadFrom(file_paths, 1, size, overlap, <<>>)

RECURSIVE NthFree(_, _, _)
\* the n-th smallest natural >= from that is not in `used`
NthFree(used, from, n) ==
    IF from \in used THEN NthFree(used, from + 1, n)
    ELSE IF n = 1 THEN from
    ELSE NthFree(used, from + 1, n - 1)

\* a key no entry of idx has, for the i-th chunk of docs. Redis keys are
\* "doc_chunks:<ULID>"; the model names a key by the file of its chunk and a
\* serial number, the smallest ones free
FreshKey(idx, docs, i) ==
    LET f == docs[i].source_file
        used == { e.key.serial : e \in { x \in idx : x.key.file = f } }
        rank == Cardinality({ j \in 1..i : docs[j].source_file = f })
    IN [file |-> f, serial |-> NthFree(used, 1, rank)]

\* an insert whose keys depend on the file and the chunk's position alone, so
\* that a later insert of the file overwrites an earlier one
add_documents_Overwrite(idx, docs, n) ==
    { e \in idx : e.source_file \notin { docs[i].source_file : i \in 1..n } }
        \cup { Entry(FreshKey({}, docs, i), docs[i]) : i \in 1..n }

\* vector_store.add_documents: the first n chunks of docs are written, each
\* under a key no entry has
add_documents(idx, docs, n) ==
    idx \cup { Entry(FreshKey(idx, docs, i), docs[i]) : i \in 1..n }

\* the record of a tool call that has returned: its arguments, the service
\* failures it met (the dedup rounds that raised, whether the vector store
\* raised), its return value, and what it was observed to do (the number of
\* keys its dedup pass deleted; how it relates to the remembered save of its
\* file)
Call(op, file_paths, size, overlap, failed, store_raised, query, k, ret, deleted, repeat) ==
    [op |-> op, file_paths |-> file_paths, chunk_size |-> size, chunk_overlap |-> overlap,
     dedup_failed |-> failed, store_raised |-> store_raised, query |-> query, k |-> k,
     ret |-> ret, deleted |-> deleted, repeat |-> repeat]

NoCall == Call("none", <<>>, 0, 0, {}, FALSE, "", 0, Ret("None", NoPath, 0, <<>>), 0, "no")

\* a save that checks and loads the files before it removes anything
SaveOutcome_ValidateFirst(idx, file_paths, size, overlap, failed, written) ==
    IF SplitterRaises(size, overlap)
    THEN [index |-> idx, ret |-> Ret("Raised", NoPath, 0, <<>>)]
    ELSE LET loaded == LoadPass(file_paths, size, overlap) IN
         IF ~loaded.ok
         THEN [index |-> idx, ret |-> loaded.ret]
         ELSE IF written = -1
         THEN [index |-> add_documents(DedupPass(idx, file_paths, failed), loaded.docs,
                                       Len(loaded.docs)),
               ret |-> Ret("Success", NoPath, Len(file_paths), <<>>)]
         ELSE [index |-> DedupPass(idx, file_paths, failed),
               ret |-> Ret("SaveError", NoPath, 0, <<>>)]

\* the index and the return value of save_to_memory(file_paths, size, overlap)
\* run on index idx, with the dedup rounds in `failed` raising and
\* add_documents raising before it writes anything when written = 0
\* (written = -1: it does not raise)
SaveOutcome(idx, file_paths, size, overlap, failed, written) ==
    IF SplitterRaises(size, overlap)
    THEN [index |-> idx, ret |-> Ret("Raised", NoPath, 0, <<>>)]
    ELSE LET deduped == DedupPass(idx, file_paths, failed)
             loaded == LoadPass(file_paths, size, overlap)
         IN IF ~loaded.ok
            THEN [index |-> deduped, ret |-> loaded.ret]
            ELSE IF written = -1
            THEN [index |-> add_documents(deduped, loaded.docs, Len(loaded.docs)),
                  ret |-> Ret("Success", NoPath, Len(file_paths), <<>>)]
            ELSE [index |-> deduped, ret |-> Ret("SaveError", NoPath, 0, <<>>)]

\* a process: where it is in save_to_memory, the call's arguments and
\* return value, and history (the files that had entries when the call
\* began; the files its dedup pass cleared that nobody wrote since; the
\* entries it wrote; whether the other process was between its dedup pass and
\* its insert when this one inserted; whether a recall between its dedup pass
\* and its insert listed nothing of the file it re-saves)
Proc(pc, file_paths, size, overlap, ret, had, clean, wrote, peer_pending, observed) ==
    [pc |-> pc, file_paths |-> file_paths, chunk_size |-> size, chunk_overlap |-> overlap,
     ret |-> ret, had |-> had, clean |-> clean, wrote |-> wrote,
     peer_pending |-> peer_pending, observed |-> observed]

Idle == Proc("idle", <<>>, 0, 0, Ret("None", NoPath, 0, <<>>), {}, {}, {}, FALSE, FALSE)

\* the file_paths lists a caller passes
PathLists == UNION { [1..n -> InputPaths] : n \in 1..MaxPaths }

\* the abs_path values of a call
AbsPaths(file_paths) == { abspath(file_paths[i]) : i \in 1..Len(file_paths) }

\* history: no save is remembered for the file
NotSaved == [chunk_size |-> 0, chunk_overlap |-> 0, body |-> Absent]

\* history: a save of one file alone that succeeds in every phase is
\* remembered for that file; any other save naming the file forgets it
Remember(file_paths, size, overlap, failed, ret) ==
    [f \in Files |->
        IF f \notin AbsPaths(file_paths) \/ ret.kind = "Raised" THEN saved[f]
        ELSE IF Len(file_paths) = 1 /\ failed = {} /\ ret.kind = "Success"
        THEN [chunk_size |-> size, chunk_overlap |-> overlap, body |-> fs[f]]
        ELSE NotSaved]

\* history: the number of keys the dedup pass of a call deletes
Deleted(idx, file_paths, size, overlap, failed) ==
    IF SplitterRaises(size, overlap) THEN 0
    ELSE Cardinality(idx) - Cardinality(DedupPass(idx, file_paths, failed))

\* history: whether a call repeats the remembered save of its file ("same":
\* same parameters, file unchanged since; "changed": the file was rewritten
\* since)
Repeat(file_paths, size, overlap) ==
    IF Len(file_paths) # 1 THEN "no"
    ELSE LET f == abspath(file_paths[1]) IN
         IF saved[f] = NotSaved THEN "no"
         ELSE IF saved[f].body # fs[f] THEN "changed"
         ELSE IF saved[f].chunk_size = size /\ saved[f].chunk_overlap = overlap THEN "same"
         ELSE "no"

\* save_to_memory as one uninterrupted call
save_to_memory(file_paths, size, overlap, failed, written) ==
    /\ last = NoCall
    /\ \E out \in { SaveOutcome(index, file_paths, size, overlap, failed, written) } :
          /\ Cardinality(out.index) <= MaxEntries
          /\ index' = out.index
          /\ last' = Call("save", file_paths, size, overlap, failed, written # -1, "", 0,
                          out.ret, Deleted(index, file_paths, size, overlap, failed),
                          Repeat(file_paths, size, overlap))
          /\ saved' = Remember(file_paths, size, overlap, failed, out.ret)
    /\ UNCHANGED <<fs, proc>>

Save ==
    /\ last = NoCall
    /\ \E file_paths \in PathLists, prm \in Params :
          IF SplitterRaises(prm[1], prm[2])
          THEN save_to_memory(file_paths, prm[1], prm[2], {}, -1)
          ELSE \E written \in (IF LoadPass(file_paths, prm[1], prm[2]).ok THEN {-1, 0} ELSE {-1}) :
               \E failed \in SUBSET (1..Len(file_paths)) :
                  save_to_memory(file_paths, prm[1], prm[2], failed, written)

\* the queries a caller passes
Queries == {"q"}

RECURSIVE Rankings(_, _)
\* the sequences of n different entries of s
Rankings(s, n) ==
    IF n = 0 THEN { <<>> }
    ELSE UNION { { <<e>> \o r : r \in Rankings(s \ {e}, n - 1) } : e \in s }

Min(a, b) == IF a < b THEN a ELSE b

\* vector_store.similarity_search(query, k): the k nearest entries (all of
\* them when there are fewer), in an order the similarity metric decides
similarity_search(idx, query, k) == Rankings(idx, Min(k, Cardinality(idx)))

\* server processes; each runs one save_to_memory at a time
Procs == {1, 2}

\* history: process i is between the dedup pass and the insert of a re-save
\* (its file had entries, its dedup pass cleared them, nobody wrote it since)
\* and the results of a recall that did not raise list no entry of the file
SeesNothing(i, results, raises) ==
    /\ proc[i].pc = "load" /\ ~raises
    /\ proc[i].clean \cap proc[i].had # {}
    /\ \A r \in 1..Len(results) : results[r].source_file \notin proc[i].clean \cap proc[i].had

\* a formatter without the check for no results
Format_NoNotice(results) ==
    Ret("Results", NoPath, Len(results),
        [i \in 1..Len(results) |->
            [source_file |-> results[i].source_file,
             page_content |-> results[i].page_content]])

\* what recall_from_memory returns when similarity_search returns `results`
Format(results) ==
    IF results = <<>> THEN Ret("Nothing", NoPath, 0, <<>>)
    ELSE Ret("Results", NoPath, Len(results),
             [i \in 1..Len(results) |->
                 [source_file |-> results[i].source_file,
                  page_content |-> results[i].page_content]])

\* what recall_from_memory(query, k) returns: the formatted results, or the
\* error string when embedding or search raises
RecallOutcome(results, raises) ==
    IF raises THEN Ret("RecallError", NoPath, 0, <<>>) ELSE Format(results)

recall_from_memory(query, k, raises) ==
    /\ last = NoCall
    /\ \E results \in similarity_search(index, query, k) :
          /\ last' = Call("recall", <<>>, 0, 0, {}, raises, query, k,
                          RecallOutcome(results, raises), 0, "no")
          /\ proc' = [i \in Procs |->
                        [proc[i] EXCEPT !.observed = @ \/ SeesNothing(i, results, raises)]]
    /\ UNCHANGED <<index, fs, saved>>

Recall == \E query \in Queries, k \in 1..MaxK, raises \in BOOLEAN : recall_from_memory(query, k, raises)

\* the caller takes the result of the call that returned
Return ==
    /\ last # NoCall
    /\ last' = NoCall
    /\ UNCHANGED <<index, fs, saved, proc>>

\* between calls, the file at f is created, rewritten or removed outside the server
EditFile ==
    /\ last = NoCall
    /\ \E f \in Files : \E body \in Bodies(f) \ {fs[f]} :
          fs' = [fs EXCEPT ![f] = body]
    /\ UNCHANGED <<index, last, saved, proc>>

Init ==
    /\ index = {}
    /\ fs = [f \in Files |-> IF f = FileB THEN PdfV1 ELSE TextV1]
    /\ last = NoCall
    /\ saved = [f \in Files |-> NotSaved]
    /\ proc = [i \in Procs |-> Idle]

Next == Save \/ Recall \/ Return \/ EditFile

Spec == Init /\ [][Next]_vars

----------------------------------------------------------------------------
(* Two server processes on the same Redis: save_to_memory in the steps
   between which another process's Redis commands can fall. A result that
   was returned is taken by its caller before the next step. *)

\* the calls the processes make: one path each, every spelling of one file
SoloLists == { <<p>> : p \in { q \in InputPaths : abspath(q) = FileA } }

\* lines 53-56: the call begins and builds its splitter
BeginSave(i, file_paths, size, overlap) ==
    /\ last = NoCall
    /\ proc[i].pc \in {"idle", "done"}
    /\ proc' = [j \in Procs |->
                  IF j # i THEN [proc[j] EXCEPT !.peer_pending = FALSE]
                  ELSE IF SplitterRaises(size, overlap)
                  THEN Proc("done", file_paths, size, overlap, Ret("Raised", NoPath, 0, <<>>),
                            {}, {}, {}, FALSE, FALSE)
                  ELSE Proc("dedup", file_paths, size, overlap, Ret("None", NoPath, 0, <<>>),
                            { f \in AbsPaths(file_paths) : EntriesOf(index, f) # {} },
                            {}, {}, FALSE, FALSE)]
    /\ UNCHANGED <<index, fs, last, saved>>

SaveBegin ==
    \E i \in Procs, file_paths \in SoloLists, prm \in Params :
        BeginSave(i, file_paths, prm[1], prm[2])

\* lines 58-85: the dedup pass of process i
DedupStep(i, failed) ==
    /\ last = NoCall
    /\ proc[i].pc = "dedup"
    /\ index' = DedupPass(index, proc[i].file_paths, failed)
    /\ proc' = [proc EXCEPT ![i].pc = "load",
                            ![i].clean = { abspath(proc[i].file_paths[j]) :
                                             j \in (1..Len(proc[i].file_paths)) \ failed }]
    /\ UNCHANGED <<fs, last, saved>>

SaveDedup ==
    \E i \in Procs : \E failed \in SUBSET (1..Len(proc[i].file_paths)) : DedupStep(i, failed)

\* lines 87-123: the load and chunk loop and the insert of process i
InsertStep(i, written) ==
    LET p == proc[i]
        loaded == LoadPass(p.file_paths, p.chunk_size, p.chunk_overlap)
        after == IF loaded.ok /\ written = -1
                 THEN add_documents(index, loaded.docs, Len(loaded.docs))
                 ELSE index
        ret == IF ~loaded.ok THEN loaded.ret
               ELSE IF written = -1 THEN Ret("Success", NoPath, Len(p.file_paths), <<>>)
               ELSE Ret("SaveError", NoPath, 0, <<>>)
        pending == \E j \in Procs \ {i} :
                      /\ proc[j].pc = "load"
                      /\ AbsPaths(proc[j].file_paths) \cap AbsPaths(p.file_paths) # {}
    IN /\ last = NoCall
       /\ p.pc = "load"
       /\ ~loaded.ok => written = -1
       /\ Cardinality(after) <= MaxEntries
       /\ index' = after
       /\ proc' = [j \in Procs |->
                     IF j = i
                     THEN [p EXCEPT !.pc = "done", !.ret = ret, !.clean = {},
                                    !.wrote = after \ index, !.peer_pending = pending]
                     ELSE [proc[j] EXCEPT !.clean = @ \ { e.source_file : e \in after \ index }]]
       /\ UNCHANGED <<fs, last, saved>>

SaveInsert == \E i \in Procs, written \in {-1, 0} : InsertStep(i, written)

NextConc == SaveBegin \/ SaveDedup \/ SaveInsert \/ Recall \/ Return

SpecConc == Init /\ [][NextConc]_vars

----------------------------------------------------------------------------
(* Properties *)

\* a step in which save_to_memory runs and returns
SaveStep == last.op = "none" /\ last'.op = "save"

\* a step in which recall_from_memory runs and returns
RecallStep == last.op = "none" /\ last'.op = "recall"

\* the chunks save_to_memory makes of file f as it is now
ChunksOf(f, size, overlap) == split_documents(Load(f, fs[f]), size, overlap)

ChunkTexts(f, size, overlap) ==
    { ChunksOf(f, size, overlap)[i].page_content : i \in 1..Len(ChunksOf(f, size, overlap)) }

\* the file cannot be loaded: it is missing or its loader raises
Fails(f) == ~exists(f) \/ LoadRaises(f, fs[f])

\* what recall lists of an entry
Shown(e) == [source_file |-> e.source_file, page_content |-> e.page_content]

\* C1: a save of one path that succeeds in every phase leaves as many entries
\* for the path as the same save did just before it (same parameters, file
\* unchanged); after it every entry of the path is a chunk of the file as it
\* is now, one entry per chunk, also when the file was rewritten since the
\* earlier save; and a recall lists only entries the index holds.
C1_IdempotentResave ==
    [][ /\ (SaveStep /\ Len(last'.file_paths) = 1 /\ last'.ret.kind = "Success"
                     /\ last'.dedup_failed = {}) =>
            LET f == abspath(last'.file_paths[1]) IN
            /\ last'.repeat = "same" =>
                  Cardinality(EntriesOf(index', f)) = Cardinality(EntriesOf(index, f))
            /\ \A e \in EntriesOf(index', f) :
                  e.page_content \in ChunkTexts(f, last'.chunk_size, last'.chunk_overlap)
            /\ Cardinality(EntriesOf(index', f))
                  = Len(ChunksOf(f, last'.chunk_size, last'.chunk_overlap))
        /\ (RecallStep /\ last'.ret.kind = "Results") =>
            \A i \in 1..Len(last'.ret.results) :
                last'.ret.results[i] \in { Shown(e) : e \in index } ]_vars

\* C1 witness: the second of two equal saves of a file of at least two chunks has returned
C1_Witness ==
    /\ last.op = "save" /\ last.repeat = "same" /\ last.ret.kind = "Success"
    /\ last.dedup_failed = {} /\ last.deleted >= 2
    /\ Cardinality(EntriesOf(index, abspath(last.file_paths[1]))) >= 2

\* C2: the index never holds two copies of a chunk of a file
C2_SingleGeneration ==
    \A e1 \in index : \A e2 \in index :
        (e1.source_file = e2.source_file /\ e1.page = e2.page
            /\ e1.page_content = e2.page_content) => e1 = e2

\* C3: a save, whatever it returns, leaves every entry of a file it was not
\* given in place and unchanged, and adds no entry for such a file
C3_DedupIsolation ==
    [][ SaveStep =>
          /\ \A e \in index :
                e.source_file \notin AbsPaths(last'.file_paths) => e \in index'
          /\ \A e \in index' \ index : e.source_file \in AbsPaths(last'.file_paths) ]_vars

\* C3 witness: a save has deleted entries of its own files while the index
\* holds an entry of another file
C3_Witness ==
    /\ last.op = "save" /\ last.deleted >= 1
    /\ \E e \in index : e.source_file \notin AbsPaths(last.file_paths)

\* a save of the one path p, with a chunking configuration the splitter
\* accepts, where p exists and has an extension the tool does not document
UnsupportedCall(c) ==
    /\ c.op = "save" /\ Len(c.file_paths) = 1
    /\ ~SplitterRaises(c.chunk_size, c.chunk_overlap)
    /\ ExtOf(abspath(c.file_paths[1])) \notin SupportedExts
    /\ exists(abspath(c.file_paths[1]))

C5_ErrorsAreValues == last.op \in {"save", "recall"} => last.ret.kind # "Raised"

\* C6: when a listed file is missing or its loader raises, the save returns the
\* error naming the first such file and inserts nothing
C6_FailFastLoad ==
    [][ (SaveStep /\ \E i \in 1..Len(last'.file_paths) : Fails(abspath(last'.file_paths[i]))) =>
          LET bad == { i \in 1..Len(last'.file_paths) : Fails(abspath(last'.file_paths[i])) }
              first == CHOOSE i \in bad : \A j \in bad : i <= j
          IN /\ last'.ret.kind \in {"NotFound", "Processing"}
             /\ last'.ret.path = abspath(last'.file_paths[first])
             /\ index' \subseteq index ]_vars

\* C7: a save in which a dedup round raises still dedups the files of the
\* other rounds (after it each holds exactly the chunks this call wrote, none
\* when the call wrote nothing), and returns what the load, chunk and insert
\* passes decide: success when they succeed
C7_BestEffortDedup ==
    [][ (SaveStep /\ last'.dedup_failed # {}) =>
          LET c == last'
              loaded == LoadPass(c.file_paths, c.chunk_size, c.chunk_overlap)
          IN /\ c.ret.kind # "Raised"
             /\ loaded.ok => c.ret.kind = (IF c.store_raised THEN "SaveError" ELSE "Success")
             /\ ~loaded.ok => c.ret = loaded.ret
             /\ \A j \in (1..Len(c.file_paths)) \ c.dedup_failed :
                   LET f == abspath(c.file_paths[j]) IN
                   Cardinality(EntriesOf(index', f))
                     = IF c.ret.kind = "Success"
                       THEN Cardinality({ i \in 1..Len(loaded.docs) : loaded.docs[i].source_file = f })
                       ELSE 0 ]_vars

\* C7 witness: the dedup round of the first of two files raised, the round of
\* the second deleted entries, and the call returned success
C7_Witness ==
    /\ last.op = "save" /\ Len(last.file_paths) = 2 /\ last.dedup_failed = {1}
    /\ abspath(last.file_paths[1]) # abspath(last.file_paths[2])
    /\ last.deleted >= 1 /\ last.ret.kind = "Success"
    /\ Cardinality(EntriesOf(index, abspath(last.file_paths[1]))) >= 2

\* C8 as claimed: a recall on an empty index returns the "nothing found" notice
C8_EmptyRecallNotice ==
    (last.op = "recall" /\ index = {}) => last.ret = Ret("Nothing", NoPath, 0, <<>>)

\* C8 amended: a recall leaves the index unchanged; on an empty index it
\* returns the "nothing found" notice when embedding and search do not raise,
\* and the recall error when they do
C8_EmptyRecallUnlessSearchRaises ==
    [][ RecallStep =>
          /\ index' = index
          /\ index = {} =>
                last'.ret = (IF last'.store_raised THEN Ret("RecallError", NoPath, 0, <<>>)
                             ELSE Ret("Nothing", NoPath, 0, <<>>)) ]_vars

\* C8 witness: a recall on the empty index has returned the notice
C8_Witness ==
    /\ last.op = "recall" /\ index = {} /\ ~last.store_raised
    /\ last.ret.kind = "Nothing"

\* C10: when a save returns a load-pass error and no dedup round raised, the
\* index holds no entry of any file of the call and nothing was inserted; if
\* any of those files had entries, the index is not what it was
C10_FailedSaveDropsEntries ==
    [][ (SaveStep /\ last'.ret.kind \in {"NotFound", "Processing"} /\ last'.dedup_failed = {}) =>
          /\ \A f \in AbsPaths(last'.file_paths) : EntriesOf(index', f) = {}
          /\ index' \subseteq index
          /\ (\E f \in AbsPaths(last'.file_paths) : EntriesOf(index, f) # {}) => index' # index ]_vars

\* C10 witness: a save of two files returned "File not found" after its dedup
\* pass deleted the entries of both
C10_Witness ==
    /\ last.op = "save" /\ last.ret.kind = "NotFound" /\ last.dedup_failed = {}
    /\ Len(last.file_paths) = 2 /\ last.deleted >= 2
    /\ last.ret.path # abspath(last.file_paths[1])

\* C9: when two saves of a file have both returned success and the first
\* inserted while the second was between its dedup pass and its insert, the
\* index holds what both wrote: two generations of the file. And a recall
\* that runs while a process is between the dedup pass and the insert of a
\* re-save lists no entry of the file being re-saved.
C9_NonAtomicResave ==
    [][ /\ \A i \in Procs : \A j \in Procs \ {i} :
              ( /\ proc'[i].pc = "done" /\ proc'[j].pc = "done"
                /\ proc'[i].ret.kind = "Success" /\ proc'[j].ret.kind = "Success"
                /\ proc'[i].peer_pending ) =>
              \A f \in AbsPaths(proc'[i].file_paths) \cap AbsPaths(proc'[j].file_paths) :
                  /\ proc'[i].wrote \cup proc'[j].wrote \subseteq index'
                  /\ proc'[i].wrote \cap proc'[j].wrote = {}
                  /\ EntriesOf(proc'[i].wrote, f) # {}
                  /\ EntriesOf(proc'[j].wrote, f) # {}
        /\ (RecallStep /\ ~last'.store_raised) =>
              \A i \in Procs : proc[i].pc = "load" =>
                  \A f \in proc[i].clean : \A r \in 1..Len(last'.ret.results) :
                      last'.ret.results[r].source_file # f ]_vars

\* C9 witness: both processes have returned success from saves of one file
\* whose dedup passes both ran before either insert, the index holds two
\* copies of its chunk, and a recall that ran between the dedup pass and the
\* insert of the first, a re-save, listed nothing of the file
C9_Witness ==
    /\ proc[1].pc = "done" /\ proc[2].pc = "done"
    /\ proc[1].ret.kind = "Success" /\ proc[2].ret.kind = "Success"
    /\ proc[1].peer_pending /\ proc[1].observed
    /\ \E f \in proc[1].had :
          /\ AbsPaths(proc[1].file_paths) = {f} /\ AbsPaths(proc[2].file_paths) = {f}
          /\ Cardinality(EntriesOf(index, f)) >= 2
          /\ ~C2_SingleGeneration

====
